---- MODULE Spec2Model ----
(***************************************************************************)
(* Satellite dashboard (src/src/App.tsx): the satellite registry, the      *)
(* delayed hazard-evaluation task of every satellite and the alert         *)
(* lifecycle (executeAction), as one state machine.                        *)
(*                                                                         *)
(* Strings that the code only copies (names, actions) are TLA+ strings.    *)
(* Texts the code parses or searches are sequences: the text of a number   *)
(* input is a sequence of characters, an advisory message is a sequence of *)
(* words.  A number is [nan, m, e], standing for m / 10^e.                 *)
(* Math.random() is drawn in thousandths: the draw r stands for a value x  *)
(* with floor(x * 1000) = r.                                               *)
(*                                                                         *)
(* An Alert object has an identity, the field obj: the number of the       *)
(* object among those constructed.  A task record holds the locals of one  *)
(* setTimeout callback.  allocated, called and form record history: the    *)
(* number of Alert objects constructed, the objects executeAction was      *)
(* called with, and whether the last use of the form was an edit, a        *)
(* rejected addSatellite or an accepted one.                               *)
(*                                                                         *)
(* Both Date.now() reads of one callback run return the same clock value.  *)
(***************************************************************************)
EXTENDS Integers, Sequences, FiniteSets

VARIABLES
    clock,            \* Date.now()
    name,             \* useState('')  line 27
    altitude,         \* useState('')  line 28
    inclination,      \* useState('')  line 29
    form,             \* what became of the add-satellite form's last use
    satellites,       \* useState<Satellite[]>([])  line 24
    alerts,           \* useState<Alert[]>([])      line 25
    executedActions,  \* useState<string[]>([])     line 26
    tasks,            \* one setTimeout callback per added satellite
    allocated,        \* number of Alert objects constructed so far
    called            \* the Alert objects executeAction was called with

vars == <<clock, name, altitude, inclination, form, satellites, alerts,
          executedActions, tasks, allocated, called>>

(***************************************************************************)
(* Bounds of the model.                                                    *)
(***************************************************************************)
MaxSats == 2
MaxLog == 2
MaxEpoch == 1
MaxOffset == 1

(***************************************************************************)
(* Program constants.                                                      *)
(***************************************************************************)
Delay == 10000
RandomRange == 1000
NoAlertBelow == 400

Instants == {k * Delay + j : k \in 0..MaxEpoch, j \in 0..MaxOffset}

\* floor(Math.random() * 1000) of the draw of line 47 and of line 51
ChanceDraws == {NoAlertBelow - 1, NoAlertBelow}
OffsetDraws == {0, RandomRange - 1}

(***************************************************************************)
(* Numbers and parseFloat.                                                 *)
(***************************************************************************)
DigitChars == <<"0", "1", "2", "3", "4", "5", "6", "7", "8", "9">>

IsDigit(c) == \E d \in 1..10 : DigitChars[d] = c

DigitVal(c) == (CHOOSE d \in 1..10 : DigitChars[d] = c) - 1

NaN == [nan |-> TRUE, m |-> 0, e |-> 0]

RECURSIVE Normal(_, _)
Normal(m, e) ==
    IF e > 0 /\ m % 10 = 0 THEN Normal(m \div 10, e - 1)
    ELSE [nan |-> FALSE, m |-> m, e |-> e]

RECURSIVE DigitRun(_, _)
DigitRun(s, i) ==
    IF i <= Len(s) /\ IsDigit(s[i]) THEN DigitRun(s, i + 1) ELSE i

RECURSIVE DigitsValue(_, _, _)
DigitsValue(s, from, to) ==
    IF to <= from THEN 0
    ELSE 10 * DigitsValue(s, from, to - 1) + DigitVal(s[to - 1])

RECURSIVE Pow10(_)
Pow10(n) == IF n = 0 THEN 1 ELSE 10 * Pow10(n - 1)

RECURSIVE SkipSpace(_, _)
SkipSpace(s, i) ==
    IF i <= Len(s) /\ s[i] = " " THEN SkipSpace(s, i + 1) ELSE i

\* parseFloat without the fraction, as parseInt reads a text
parseFloatInt(s) ==
    LET p0 == SkipSpace(s, 1)
        signed == p0 <= Len(s) /\ s[p0] \in {"+", "-"}
        neg == signed /\ s[p0] = "-"
        p1 == IF signed THEN p0 + 1 ELSE p0
        p2 == DigitRun(s, p1)
    IN  IF p2 = p1 THEN NaN
        ELSE Normal((IF neg THEN -1 ELSE 1) * DigitsValue(s, p1, p2), 0)

parseFloat(s) ==
    LET p0 == SkipSpace(s, 1)
        signed == p0 <= Len(s) /\ s[p0] \in {"+", "-"}
        neg == signed /\ s[p0] = "-"
        p1 == IF signed THEN p0 + 1 ELSE p0
        p2 == DigitRun(s, p1)
        dot == p2 <= Len(s) /\ s[p2] = "."
        p3 == IF dot THEN DigitRun(s, p2 + 1) ELSE p2
        frac == IF dot THEN p3 - (p2 + 1) ELSE 0
        whole == DigitsValue(s, p1, p2)
        part == IF dot THEN DigitsValue(s, p2 + 1, p3) ELSE 0
    IN  IF p2 = p1 /\ frac = 0 THEN NaN
        ELSE Normal((IF neg THEN -1 ELSE 1) * (whole * Pow10(frac) + part), frac)

(***************************************************************************)
(* <input type="number">: the value handed to onChange is the typed text   *)
(* when it is a valid floating-point number, and '' otherwise.             *)
(***************************************************************************)
IsValidFloatingPointNumber(s) ==
    LET p1 == IF Len(s) >= 1 /\ s[1] = "-" THEN 2 ELSE 1
        p2 == DigitRun(s, p1)
        dot == p2 <= Len(s) /\ s[p2] = "."
        p3 == IF dot THEN DigitRun(s, p2 + 1) ELSE p2
    IN  /\ p3 = Len(s) + 1
        /\ IF dot THEN p3 > p2 + 1 ELSE p2 > p1

NumberInputValue(raw) == IF IsValidFloatingPointNumber(raw) THEN raw ELSE <<>>

(***************************************************************************)
(* What the user types.                                                    *)
(***************************************************************************)
NameInputs == {"", "ISS"}

AltitudeTexts == { <<>>, <<"4", "0", "0">>, <<"4", "0", "0", "k", "m">> }

InclinationTexts == { <<>>, <<"5", "1", ".", "6">>, <<"a", "b", "c">> }

(***************************************************************************)
(* The External Alert Feed and fetchCMEAlerts.                             *)
(***************************************************************************)
Pattern == <<"Coronal", "Mass", "Ejection">>

CmeWatch == <<"WATCH:", "Coronal", "Mass", "Ejection", "detected">>
CmeShort == <<"Coronal", "Mass", "Ejection">>
Flare == <<"Solar", "Flare", "X1">>
NearMiss == <<"Coronal", "Hole", "Mass", "Ejection">>

Advisory(msg) == [hasMessage |-> TRUE, message |-> msg]
NoMessage == [hasMessage |-> FALSE, message |-> <<>>]

NoResponse == [status |-> "pending", isArray |-> FALSE, items |-> <<>>]
NetworkError == [status |-> "error", isArray |-> FALSE, items |-> <<>>]
MissingField ==
    [status |-> "ok", isArray |-> TRUE, items |-> <<Advisory(CmeWatch), NoMessage>>]
Quiet ==
    [status |-> "ok", isArray |-> TRUE, items |-> <<Advisory(Flare), Advisory(NearMiss)>>]
Storm ==
    [status |-> "ok", isArray |-> TRUE,
     items |-> <<Advisory(Flare), Advisory(CmeWatch), Advisory(CmeShort)>>]

Responses == {NetworkError, MissingField, Quiet, Storm}

Includes(msg, pat) ==
    \E k \in 0..(Len(msg) - Len(pat)) : \A j \in 1..Len(pat) : msg[k + j] = pat[j]

Messages(items) == [i \in 1..Len(items) |-> items[i].message]

IsCme(item) == Includes(item.message, Pattern)

\* the body of the try block throws
Throws(resp) ==
    \/ resp.status # "ok"
    \/ ~resp.isArray
    \/ \E i \in 1..Len(resp.items) : ~resp.items[i].hasMessage

\* fetchCMEAlerts without its catch block
fetchCMEAlertsNoCatch(resp) ==
    IF Throws(resp) THEN [threw |-> TRUE, value |-> <<>>]
    ELSE [threw |-> FALSE, value |-> Messages(SelectSeq(resp.items, IsCme))]

fetchCMEAlerts(resp) ==
    IF Throws(resp) THEN [threw |-> FALSE, value |-> <<>>]
    ELSE [threw |-> FALSE, value |-> Messages(SelectSeq(resp.items, IsCme))]

(***************************************************************************)
(* Alerts.                                                                 *)
(***************************************************************************)
CmeAction == "Switch off non-critical electronics and shield instruments"
ConjunctionMessage == <<"Conjunction", "alert:", "Possible", "collision", "with", "space", "debris!">>
ConjunctionAction == "Perform evasive maneuver or adjust orbit"
UnknownSatellite == "Unknown Satellite"

\* null; obj is the identity of an Alert object (0 for null)
NoAlert ==
    [obj |-> 0, id |-> 0, satelliteId |-> 0, message |-> <<>>, action |-> "",
     executed |-> FALSE]

\* simulateConjunctionAlert without the early return of line 48
simulateConjunctionAlertAlways(satelliteId, chance, r, obj) ==
    [obj |-> obj, id |-> clock + r, satelliteId |-> satelliteId,
     message |-> ConjunctionMessage, action |-> ConjunctionAction,
     executed |-> FALSE]

simulateConjunctionAlert(satelliteId, chance, r, obj) ==
    IF chance < NoAlertBelow THEN NoAlert
    ELSE [obj |-> obj, id |-> clock + r, satelliteId |-> satelliteId,
          message |-> ConjunctionMessage, action |-> ConjunctionAction,
          executed |-> FALSE]

Range(s) == {s[i] : i \in 1..Len(s)}

(***************************************************************************)
(* State after construction.                                               *)
(***************************************************************************)
Init ==
    /\ clock = 0
    /\ name = ""
    /\ altitude = <<>>
    /\ inclination = <<>>
    /\ form = "empty"
    /\ satellites = <<>>
    /\ alerts = <<>>
    /\ executedActions = <<>>
    /\ tasks = <<>>
    /\ allocated = 0
    /\ called = {}

(***************************************************************************)
(* The three inputs (onChange).                                            *)
(***************************************************************************)
setName(v) ==
    /\ v # name
    /\ name' = v
    /\ form' = "edited"
    /\ UNCHANGED <<clock, altitude, inclination, satellites, alerts,
                   executedActions, tasks, allocated, called>>

setAltitude(raw) ==
    /\ altitude' = NumberInputValue(raw)
    /\ form' = "edited"
    /\ UNCHANGED <<clock, name, inclination, satellites, alerts,
                   executedActions, tasks, allocated, called>>

setInclination(raw) ==
    /\ inclination' = NumberInputValue(raw)
    /\ form' = "edited"
    /\ UNCHANGED <<clock, name, altitude, satellites, alerts,
                   executedActions, tasks, allocated, called>>

(***************************************************************************)
(* addSatellite, up to the setTimeout call.                                *)
(***************************************************************************)
\* the guard of line 60 without its third test
FieldsMissingNoInclination(n, a, i) == n = "" \/ a = <<>>

FieldsMissing(n, a, i) == n = "" \/ a = <<>> \/ i = <<>>

NewTask(newSat) ==
    [newSat |-> newSat, due |-> clock + Delay, pc |-> "scheduled",
     response |-> NoResponse, cmeMessages |-> <<>>, alert |-> NoAlert,
     conjunctionAlert |-> NoAlert, chance |-> -1]

addSatellite ==
    IF FieldsMissing(name, altitude, inclination)
    THEN /\ form' = "rejected"
         /\ UNCHANGED <<clock, name, altitude, inclination, satellites,
                        alerts, executedActions, tasks, allocated, called>>
    ELSE LET newSat == [id |-> clock, name |-> name,
                        altitude |-> parseFloat(altitude),
                        inclination |-> parseFloat(inclination)]
         IN  /\ Len(satellites) < MaxSats
             /\ satellites' = Append(satellites, newSat)
             /\ name' = ""
             /\ altitude' = <<>>
             /\ inclination' = <<>>
             /\ form' = "added"
             /\ tasks' = Append(tasks, NewTask(newSat))
             /\ UNCHANGED <<clock, alerts, executedActions, allocated, called>>

(***************************************************************************)
(* The setTimeout callback: the timer fires and the feed is requested,     *)
(* then the response arrives and the rest of the callback runs.            *)
(***************************************************************************)
TimerDue(t) == clock >= t.due

TimerFires(i) ==
    /\ tasks[i].pc = "scheduled"
    /\ TimerDue(tasks[i])
    /\ tasks' = [tasks EXCEPT ![i].pc = "fetching"]
    /\ UNCHANGED <<clock, name, altitude, inclination, form, satellites,
                   alerts, executedActions, allocated, called>>

CmeAlert(t, cmeMessages, obj) ==
    IF Len(cmeMessages) > 0
    THEN [obj |-> obj, id |-> clock, satelliteId |-> t.newSat.id,
          message |-> cmeMessages[1], action |-> CmeAction, executed |-> FALSE]
    ELSE NoAlert

Push(list, a) == IF a = NoAlert THEN list ELSE Append(list, a)

Count(a) == IF a = NoAlert THEN 0 ELSE 1

FetchReturns(i, resp, chance, r) ==
    LET t == tasks[i]
        res == fetchCMEAlerts(resp)
        alert == CmeAlert(t, res.value, allocated + 1)
        conjunctionAlert ==
            simulateConjunctionAlert(t.newSat.id, chance, r,
                                     allocated + Count(alert) + 1)
    IN  /\ t.pc = "fetching"
        /\ IF res.threw
           THEN /\ tasks' = [tasks EXCEPT ![i].pc = "rejected",
                                          ![i].response = resp]
                /\ UNCHANGED <<alerts, allocated>>
           ELSE /\ tasks' = [tasks EXCEPT ![i].pc = "done",
                                          ![i].response = resp,
                                          ![i].cmeMessages = res.value,
                                          ![i].alert = alert,
                                          ![i].chance = chance,
                                          ![i].conjunctionAlert = conjunctionAlert]
                /\ alerts' = Push(Push(alerts, alert), conjunctionAlert)
                /\ allocated' = allocated + Count(alert) + Count(conjunctionAlert)
        /\ UNCHANGED <<clock, name, altitude, inclination, form, satellites,
                       executedActions, called>>

(***************************************************************************)
(* executeAction, called from the button rendered for an alert.            *)
(***************************************************************************)
Created ==
    UNION {{tasks[i].alert, tasks[i].conjunctionAlert} : i \in 1..Len(tasks)}
        \ {NoAlert}

\* The alerts a button was rendered for.  A click handler keeps the Alert
\* object of its render, so a caller may still hold the handler of an alert
\* that has left the active collection.  The satellites a handler captured
\* are a prefix of the registry that holds the alert's satellite, so the
\* lookup of line 98 gives what it gives on the current registry.
Rendered == {a \in Created : ~a.executed}

SatName(alert) ==
    LET found == {i \in 1..Len(satellites) : satellites[i].id = alert.satelliteId}
        first == CHOOSE i \in found : \A j \in found : i <= j
    IN  IF found = {} \/ satellites[first].name = "" THEN UnknownSatellite
        ELSE satellites[first].name

LogEntry(satName, action) == <<"Action executed for ", satName, ": ", action>>

\* the update of lines 103-105 without its filter
RetireMarkOnly(prev, alert) ==
    [i \in 1..Len(prev) |->
        IF prev[i].id = alert.id THEN [prev[i] EXCEPT !.executed = TRUE]
        ELSE prev[i]]

Retire(prev, alert) ==
    LET marked == [i \in 1..Len(prev) |->
                      IF prev[i].id = alert.id
                      THEN [prev[i] EXCEPT !.executed = TRUE]
                      ELSE prev[i]]
        Keep(a) == a.id # alert.id
    IN  SelectSeq(marked, Keep)

executeAction(alert) ==
    /\ called' = called \cup {alert.obj}
    /\ IF alert.executed
       THEN UNCHANGED <<alerts, executedActions>>
       ELSE /\ Len(executedActions) < MaxLog
            /\ executedActions' =
                   Append(executedActions, LogEntry(SatName(alert), alert.action))
            /\ alerts' = Retire(alerts, alert)
    /\ UNCHANGED <<clock, name, altitude, inclination, form, satellites,
                   tasks, allocated>>

(***************************************************************************)
(* Time passes.                                                            *)
(***************************************************************************)
Tick ==
    /\ \E t \in Instants : t > clock /\ clock' = t
    /\ UNCHANGED <<name, altitude, inclination, form, satellites, alerts,
                   executedActions, tasks, allocated, called>>

Next ==
    \/ \E v \in NameInputs : setName(v)
    \/ \E raw \in AltitudeTexts : setAltitude(raw)
    \/ \E raw \in InclinationTexts : setInclination(raw)
    \/ addSatellite
    \/ \E i \in 1..Len(tasks) : TimerFires(i)
    \/ \E i \in 1..Len(tasks), resp \in Responses, chance \in ChanceDraws :
           \E r \in (IF chance < NoAlertBelow THEN {0} ELSE OffsetDraws) :
               FetchReturns(i, resp, chance, r)
    \/ \E alert \in Rendered : executeAction(alert)
    \/ Tick

Spec == Init /\ [][Next]_vars

(***************************************************************************)
(* Vocabulary of the properties.                                           *)
(***************************************************************************)
IsPrefix(s, t) == Len(s) <= Len(t) /\ \A i \in 1..Len(s) : s[i] = t[i]

\* a field is empty, or does not parse as a number where one is required
InvalidFields ==
    \/ name = ""
    \/ altitude = <<>>
    \/ inclination = <<>>
    \/ parseFloat(altitude).nan
    \/ parseFloat(inclination).nan

\* the number a decimal numeral denotes
FourHundred == [nan |-> FALSE, m |-> 400, e |-> 0]
FiftyOnePointSix == [nan |-> FALSE, m |-> 516, e |-> 1]

Denotes(text) ==
    IF text = <<"4", "0", "0">> THEN FourHundred
    ELSE IF text = <<"5", "1", ".", "6">> THEN FiftyOnePointSix
    ELSE NaN

\* the request failed, or the response is malformed
FeedFailed(resp) ==
    \/ resp.status = "error"
    \/ resp.status = "ok" /\ ~resp.isArray
    \/ resp.status = "ok" /\ \E i \in 1..Len(resp.items) : ~resp.items[i].hasMessage

WellFormed(resp) ==
    /\ resp.status = "ok"
    /\ resp.isArray
    /\ \A i \in 1..Len(resp.items) : resp.items[i].hasMessage

Matching(resp) ==
    {i \in 1..Len(resp.items) : Includes(resp.items[i].message, Pattern)}

FirstMatch(resp) ==
    resp.items[CHOOSE i \in Matching(resp) : \A j \in Matching(resp) : i <= j].message

Evaluated(t) == t.pc \notin {"scheduled", "fetching"}

(***************************************************************************)
(* C1: executeAction(a), for an alert a that is in the active collection   *)
(* with executed = false, appends exactly one log entry, makes the active  *)
(* collection exactly one element shorter, leaves a absent from it and     *)
(* keeps every other active alert.                                         *)
(***************************************************************************)
C1_ExecuteRetiresExactlyOne ==
    [][\A a \in Rendered :
          (a \in Range(alerts) /\ ~a.executed /\ executeAction(a)) =>
              /\ Len(executedActions') = Len(executedActions) + 1
              /\ Len(alerts') = Len(alerts) - 1
              /\ a \notin Range(alerts')
              /\ \A b \in Range(alerts) : b # a => b \in Range(alerts')]_vars

(***************************************************************************)
(* C2: a second executeAction(a) with the same Alert object is a no-op:    *)
(* the log and the active collection stay as the first call left them.     *)
(***************************************************************************)
C2_SecondCallIsNoOp ==
    [][\A a \in Rendered :
          (a.obj \in called /\ executeAction(a)) =>
              UNCHANGED <<executedActions, alerts>>]_vars

(***************************************************************************)
(* C3: while a field is empty or unparsable no satellite is created and no *)
(* task is scheduled, and an addSatellite call is rejected, leaving the    *)
(* registry, the active alerts, the log and the tasks unchanged.           *)
(***************************************************************************)
C3_InvalidInputRejected ==
    [][InvalidFields =>
          /\ satellites' = satellites
          /\ Len(tasks') = Len(tasks)
          /\ addSatellite =>
                 /\ form' = "rejected"
                 /\ UNCHANGED <<alerts, executedActions, tasks>>]_vars

C3_Witness ==
    /\ form = "rejected"
    /\ name # ""
    /\ altitude # <<>>
    /\ inclination = <<>>
    /\ Len(satellites) = 1
    /\ Len(tasks) = 1

(***************************************************************************)
(* C4: the registry is append-only and in submission order, and            *)
(* addSatellite with a valid triple appends exactly one satellite, whose   *)
(* name, altitude and inclination are the supplied values.                 *)
(***************************************************************************)
C4_ValidInputAppended ==
    [][/\ IsPrefix(satellites, satellites')
       /\ Len(satellites') <= Len(satellites) + 1
       /\ (addSatellite /\ ~InvalidFields) =>
              /\ Len(satellites') = Len(satellites) + 1
              /\ satellites'[Len(satellites')].name = name
              /\ satellites'[Len(satellites')].altitude = Denotes(altitude)
              /\ satellites'[Len(satellites')].inclination = Denotes(inclination)
              /\ ~satellites'[Len(satellites')].altitude.nan
              /\ ~satellites'[Len(satellites')].inclination.nan]_vars

C4_Witness ==
    /\ form = "added"
    /\ Len(satellites) = 2
    /\ satellites[1].id < satellites[2].id
    /\ satellites[2].name = "ISS"
    /\ satellites[2].altitude = FourHundred
    /\ satellites[2].inclination = FiftyOnePointSix

(***************************************************************************)
(* C5: every added satellite has exactly one hazard-evaluation task; the   *)
(* task runs once, not before the delay after the satellite's insertion    *)
(* has passed, and never again; no alert tagged with a satellite's id      *)
(* exists before that satellite's task has fired.                          *)
(***************************************************************************)
C5_TaskOfEverySatellite ==
    /\ Len(tasks) = Len(satellites)
    /\ \A i \in 1..Len(tasks) :
          /\ tasks[i].newSat = satellites[i]
          /\ tasks[i].pc # "scheduled" => clock >= satellites[i].id + Delay
    /\ \A a \in Range(alerts) : \A i \in 1..Len(satellites) :
          satellites[i].id = a.satelliteId => tasks[i].pc # "scheduled"

C5_TaskRunsOnce ==
    \A i \in 1..Len(tasks) :
        /\ tasks[i].pc # "scheduled" => tasks'[i].pc # "scheduled"
        /\ Evaluated(tasks[i]) => tasks'[i] = tasks[i]

C5_OneEvaluationAfterDelay ==
    [](C5_TaskOfEverySatellite) /\ [][C5_TaskRunsOnce]_vars

(***************************************************************************)
(* C6: after a failed request or a malformed response the task has created *)
(* no CME alert, has not raised an error and has made the conjunction      *)
(* check, whose outcome depends on the draw alone, as with a working feed. *)
(***************************************************************************)
C6_FeedFailureOnlyDropsCme ==
    \A i \in 1..Len(tasks) :
        FeedFailed(tasks[i].response) =>
            /\ tasks[i].pc = "done"
            /\ tasks[i].alert = NoAlert
            /\ tasks[i].chance \in ChanceDraws
            /\ tasks[i].conjunctionAlert # NoAlert <=> tasks[i].chance >= NoAlertBelow
            /\ \A j \in 1..Len(tasks) :
                  (tasks[j].pc = "done" /\ tasks[j].chance = tasks[i].chance) =>
                      /\ tasks[j].conjunctionAlert.message
                             = tasks[i].conjunctionAlert.message
                      /\ tasks[j].conjunctionAlert.action
                             = tasks[i].conjunctionAlert.action

C6_Witness ==
    \E i, j \in 1..Len(tasks) :
        /\ tasks[i].response = NetworkError
        /\ tasks[i].conjunctionAlert \in Range(alerts)
        /\ tasks[j].response = MissingField
        /\ tasks[j].pc = "done"
        /\ tasks[j].conjunctionAlert = NoAlert

(***************************************************************************)
(* C7: every alert in the active collection has executed = false.          *)
(***************************************************************************)
C7_ActiveAlertsArePending ==
    \A i \in 1..Len(alerts) : ~alerts[i].executed

C7_Witness ==
    /\ Len(executedActions) >= 1
    /\ Len(alerts) >= 1
    /\ Cardinality(called) >= 1

(***************************************************************************)
(* C8: no two alerts ever created share an id.                             *)
(***************************************************************************)
C8_AlertIdsUnique ==
    \A a, b \in Created : a.id = b.id => a = b

(***************************************************************************)
(* C9: an evaluation creates one CME alert exactly if the feed returned a  *)
(* matching advisory, with the first match's text, and one conjunction     *)
(* alert exactly if the draw is not below 0.4; each carries the            *)
(* satellite's id and executed = false.  Every Alert object ever made is   *)
(* one of the at most two of one task, and every active alert's            *)
(* satelliteId is the id of a satellite of the registry.                   *)
(***************************************************************************)
C9_AtMostTwoAlertsPerEvaluation ==
    /\ \A i \in 1..Len(tasks) :
          LET t == tasks[i] IN
          /\ ~Evaluated(t) => t.alert = NoAlert /\ t.conjunctionAlert = NoAlert
          /\ (t.pc = "done" /\ WellFormed(t.response)) =>
                 /\ t.alert # NoAlert <=> Matching(t.response) # {}
                 /\ t.alert # NoAlert => t.alert.message = FirstMatch(t.response)
          /\ t.pc = "done" =>
                 (t.conjunctionAlert = NoAlert <=> t.chance < NoAlertBelow)
          /\ \A a \in {t.alert, t.conjunctionAlert} \ {NoAlert} :
                 a.satelliteId = satellites[i].id /\ ~a.executed
          /\ t.alert # NoAlert /\ t.conjunctionAlert # NoAlert =>
                 t.alert.obj # t.conjunctionAlert.obj
          /\ \A j \in 1..Len(tasks) :
                 j # i => {t.alert.obj, t.conjunctionAlert.obj}
                              \cap {tasks[j].alert.obj, tasks[j].conjunctionAlert.obj}
                              \subseteq {0}
    /\ {a.obj : a \in Created} = 1..allocated
    /\ \A a \in Range(alerts) :
          /\ a \in Created
          /\ \E i \in 1..Len(satellites) : satellites[i].id = a.satelliteId

C9_Witness ==
    \E i \in 1..Len(tasks) :
        /\ tasks[i].response = Storm
        /\ tasks[i].alert.message = CmeWatch
        /\ tasks[i].alert \in Range(alerts)
        /\ tasks[i].conjunctionAlert \in Range(alerts)
        /\ tasks[i].conjunctionAlert.id # tasks[i].alert.id

(***************************************************************************)
(* C10: the log is append-only and in execution order; only executeAction  *)
(* changes it; and it holds one entry per executed alert, so its length is *)
(* the number of alerts executeAction has removed from the active          *)
(* collection.                                                             *)
(***************************************************************************)
C10_LogStep ==
    /\ IsPrefix(executedActions, executedActions')
    /\ executedActions' # executedActions =>
           \E a \in Rendered :
               /\ executeAction(a)
               /\ executedActions'
                      = Append(executedActions, LogEntry(SatName(a), a.action))

C10_OneEntryPerExecutedAlert ==
    Len(executedActions) = allocated - Len(alerts)

C10_LogAppendOnlyOnePerAlert ==
    [](C10_OneEntryPerExecutedAlert) /\ [][C10_LogStep]_vars

====
